---- MODULE Spec2Model ----
(***************************************************************************)
(* Competitor-discovery pipeline of competint.                             *)
(*                                                                         *)
(* Spec       : DiscoveryService.createRun and the BullMQ worker           *)
(*              DiscoveryProcessor.process of                              *)
(*              backend/src/discovery/processors/discovery.processor.ts    *)
(*              (Firecrawl provider, AI fallback, BasicExtractor).         *)
(* SpecLegacy : the older DiscoveryProcessor.handleSearch of               *)
(*              backend/src/discovery/discovery.processor.ts.              *)
(* SpecStatus : the two status-update operations applied to a run row.     *)
(***************************************************************************)
EXTENDS Integers, Sequences, FiniteSets, TLC

\* ------------------------------------------------------------------ bounds
MaxRuns == 2        \* runs created in one behaviour
MaxAttempts == 2    \* executions of the job handler per job
MaxCand == 2        \* records in one extractor answer
MaxHits == 1        \* results in one provider answer
MaxAiHits == 2      \* companies in one fallback answer, search step alone
MaxJobs == 3        \* per-country jobs of the run, per-country worker

\* optional values (undefined / SQL NULL, or a value)
None == <<>>
Some(x) == <<x>>

\* ------------------------------------------------------------ data domains
Orgs == {"o1", "o2"}
\* the organization with rows of its own before the first run
OtherOrg == "o2"
Users == {"u1"}
\* projects table: id -> organization_id
ProjectOrg == [p1 |-> "o1"]
ProjectIds == DOMAIN ProjectOrg

RunIds == 1..MaxRuns

\* keyword / region / industry lists a request may carry
KeywordLists == {<<"k1", "k2">>}
RegionLists == {<<"NG">>}
IndustryLists == {<<>>}

\* URLs: scheme, host labels, path.  The host labels keep their case.
Url(s, h, p) == [scheme |-> s, host |-> h, path |-> p]
SiteA == Url("https", <<"a", "com">>, "")
SiteWwwA == Url("", <<"www", "A", "com">>, "/")
SiteB == Url("https", <<"b", "com">>, "")
\* what the extractor model may name as a company website ("" = missing)
NoSite == Url("", <<>>, "")
RawSites == {SiteA, SiteWwwA, SiteB, NoSite}

\* raw items of a primary search response (an item may lack its url)
RawHits == {[url |-> "s1", title |-> "T1"], [url |-> "s2", title |-> "T2"],
            [url |-> "", title |-> "T3"]}
\* companies the fallback model may list (website or name may be missing)
AiCompanies == {[website |-> "s1", name |-> "Acme"], [website |-> "s3", name |-> "Beta"],
                [website |-> "", name |-> "Ghost"]}
\* records the extractor model may return
RawItems == {[name |-> "Acme", website |-> SiteA], [name |-> "Acme", website |-> SiteWwwA],
             [name |-> "Beta", website |-> SiteB], [name |-> "Ghost", website |-> NoSite]}
\* messages of errors thrown by the Firecrawl client
ClientErrors == {"Insufficient credits", "rate limit exceeded", "socket hang up"}

\* messages of database errors
DbErrors == {"db unavailable"}

Statuses == {"pending", "searching", "extracting", "completed", "failed"}

\* ---------------------------------------------------------------- helpers
Range(s) == {s[i] : i \in DOMAIN s}

\* sequences over S of length 0..n
SeqsUpTo(S, n) == UNION {[1..k -> S] : k \in 0..n}

\* String.prototype.toLowerCase on one host label
Lower(l) == CASE l = "A" -> "a" [] l = "B" -> "b" [] l = "WWW" -> "www" [] OTHER -> l

\* hostname.replace('www.', ''): the first "www." of the string is removed.
\* A label "www" followed by a dot is any "www" label that is not the last.
FirstWww(h) ==
    LET idx == {i \in 1..(Len(h) - 1) : h[i] = "www"}
    IN IF idx = {} THEN 0 ELSE CHOOSE i \in idx : \A j \in idx : i <= j

ReplaceWww(h) ==
    LET i == FirstWww(h)
    IN IF i = 0 THEN h ELSE SubSeq(h, 1, i - 1) \o SubSeq(h, i + 1, Len(h))

\* DiscoveryProcessor.extractDomain: new URL(...) lower-cases the hostname and
\* throws on an empty host (-> null)
extractDomain(u) ==
    IF u.host = <<>> THEN None
    ELSE LET hostname == [i \in DOMAIN u.host |-> Lower(u.host[i])]
         IN [i \in DOMAIN ReplaceWww(hostname) |-> Lower(ReplaceWww(hostname)[i])]

\* BasicExtractor.normalizeUrl: add https:// when no protocol, strip trailing slashes
normalizeUrl(u) ==
    [scheme |-> IF u.scheme \in {"http", "https"} THEN u.scheme ELSE "https",
     host |-> u.host,
     path |-> IF u.path = "/" THEN "" ELSE u.path]


\* sequence filter keeping the order
RECURSIVE FilterSeq(_, _)
FilterSeq(s, Keep) ==
    IF s = <<>> THEN <<>>
    ELSE IF Head(s) \in Keep THEN <<Head(s)>> \o FilterSeq(Tail(s), Keep)
         ELSE FilterSeq(Tail(s), Keep)

Take(s, n) == SubSeq(s, 1, IF Len(s) < n THEN Len(s) ELSE n)

\* ------------------------------------------------------- query building
QueryCap == 5

getRegionName(code) ==
    CASE code = "NG" -> "Nigeria" [] code = "KE" -> "Kenya" [] OTHER -> code

RECURSIVE QueriesOfKeyword(_, _, _)
QueriesOfKeyword(keyword, regions, industry) ==
    IF regions = <<>> THEN <<>>
    ELSE LET regionName == getRegionName(Head(regions))
             primary == <<[q |-> <<keyword, "startup", regionName>>]>>
             withInd == IF industry # "" 
                        THEN <<[q |-> <<keyword, industry, "company", regionName>>]>>
                        ELSE <<>>
         IN primary \o withInd \o QueriesOfKeyword(keyword, Tail(regions), industry)

RECURSIVE QueriesOfKeywords(_, _, _)
QueriesOfKeywords(keywords, regions, industry) ==
    IF keywords = <<>> THEN <<>>
    ELSE QueriesOfKeyword(Head(keywords), regions, industry)
         \o QueriesOfKeywords(Tail(keywords), regions, industry)

\* DiscoveryProcessor.buildSearchQueries
buildSearchQueries(context) ==
    LET industry == IF context.industries = <<>> THEN "" ELSE context.industries[1]
    IN Take(QueriesOfKeywords(context.keywords, context.regions, industry), QueryCap)

\* ------------------------------------------------------------- providers
\* what the Firecrawl client does on one call
ClientOutcomes ==
    {[kind |-> "ok", items |-> its, message |-> ""] : its \in SeqsUpTo(RawHits, MaxHits)}
    \cup {[kind |-> "throw", items |-> <<>>, message |-> m] : m \in ClientErrors}

\* FirecrawlProvider.parseResponse: items without url are dropped
parseResponse(items) == FilterSeq(items, {h \in RawHits : h.url # ""})

\* FirecrawlProvider.search: ProviderResponse
FirecrawlSearch(outcome) ==
    IF outcome.kind = "ok"
    THEN [success |-> TRUE, results |-> parseResponse(outcome.items), error |-> ""]
    ELSE [success |-> FALSE, results |-> <<>>,
          error |-> IF outcome.message = "Insufficient credits" THEN "INSUFFICIENT_CREDITS"
                    ELSE IF outcome.message = "rate limit exceeded" THEN "RATE_LIMITED"
                    ELSE outcome.message]

\* what the chat model does on the fallback prompt
AiAnswers(n) ==
    {[kind |-> "json", companies |-> cs] : cs \in SeqsUpTo(AiCompanies, n)}
    \cup {[kind |-> k, companies |-> <<>>] : k \in {"throw", "nojson"}}

AiOutcomes == AiAnswers(MaxHits)

\* AiFallbackProvider.search
AiFallbackSearch(outcome) ==
    IF outcome.kind = "json"
    THEN [success |-> TRUE,
          results |-> FilterSeq([i \in DOMAIN outcome.companies |->
                                    [url |-> outcome.companies[i].website,
                                     title |-> outcome.companies[i].name]],
                                {[url |-> c.website, title |-> c.name] :
                                    c \in {d \in AiCompanies : d.website # "" /\ d.name # ""}}),
          error |-> ""]
    ELSE [success |-> FALSE, results |-> <<>>, error |-> "Invalid AI response format"]

\* the for-of over response.results with the seenUrls set
RECURSIVE AddUnseen(_, _)
AddUnseen(acc, results) ==
    IF results = <<>> THEN acc
    ELSE IF Head(results).url \in {acc[i].url : i \in DOMAIN acc}
         THEN AddUnseen(acc, Tail(results))
         ELSE AddUnseen(Append(acc, Head(results)), Tail(results))

\* ------------------------------------------------------------- extractor
ExtractOutcomes ==
    {[kind |-> "json", items |-> its] : its \in SeqsUpTo(RawItems, MaxCand)}
    \cup {[kind |-> k, items |-> <<>>] : k \in {"throw", "nojson"}}

\* BasicExtractor.extract
BasicExtract(searchResults, outcome) ==
    IF Len(searchResults) = 0 THEN <<>>
    ELSE IF outcome.kind # "json" THEN <<>>
    ELSE LET kept == FilterSeq(outcome.items,
                               {c \in RawItems : c.name # "" /\ c.website # NoSite})
         IN [i \in DOMAIN kept |->
                [name |-> kept[i].name, website |-> normalizeUrl(kept[i].website)]]

\* ----------------------------------------------------------------- dedup
\* first loop of deduplicateCompetitors: Map keyed by domain, first one wins
RECURSIVE ByDomain(_, _)
ByDomain(acc, competitors) ==
    IF competitors = <<>> THEN acc
    ELSE LET domain == extractDomain(Head(competitors).website)
         IN IF domain # None
               /\ domain \notin {extractDomain(acc[i].website) : i \in DOMAIN acc}
            THEN ByDomain(Append(acc, Head(competitors)), Tail(competitors))
            ELSE ByDomain(acc, Tail(competitors))

RECURSIVE DropExisting(_, _)
DropExisting(uniqueCompetitors, existingDomains) ==
    IF uniqueCompetitors = <<>> THEN <<>>
    ELSE LET domain == extractDomain(Head(uniqueCompetitors).website)
             rest == DropExisting(Tail(uniqueCompetitors), existingDomains)
         IN IF domain # None /\ domain \notin existingDomains
            THEN <<Head(uniqueCompetitors)>> \o rest ELSE rest

\* variant: only the duplicates within the batch are dropped
deduplicateCompetitors_BatchOnly(cands, rows, organizationId) == ByDomain(<<>>, cands)

\* DiscoveryProcessor.deduplicateCompetitors against the rows of the organization
deduplicateCompetitors(cands, rows, organizationId) ==
    LET existing == {rows[i].website : i \in {j \in DOMAIN rows : rows[j].organization_id = organizationId}}
        existingDomains == {extractDomain(w) : w \in existing} \ {None}
    IN DropExisting(ByDomain(<<>>, cands), existingDomains)

\* ------------------------------------------------------------ run status
\* DiscoveryProcessor.updateStatus: the update object written to the row `id`.
\* The row takes every value of the type DiscoveryStatus; the result of the
\* update is not looked at by the code.
\* resultsCount and errorMessage are optional; a message is a sequence of pieces,
\* the empty string being <<>>.
updateStatus(rows, runId, status, resultsCount, errorMessage, t) ==
    [i \in DOMAIN rows |->
        IF i # runId THEN rows[i]
        ELSE [rows[i] EXCEPT
                !.status = status,
                !.results_count = IF resultsCount # None THEN resultsCount[1] ELSE @,
                !.completed_at = IF status = "completed" THEN Some(t) ELSE @,
                !.error_message = IF errorMessage # None /\ errorMessage[1] # <<>>
                                  THEN errorMessage ELSE @]]

\* discovery.processor.ts updateRunStatus: completed and failed set completed_at
updateRunStatus(rows, runId, status, resultsCount, errorMessage, t) ==
    [i \in DOMAIN rows |->
        IF i # runId THEN rows[i]
        ELSE [rows[i] EXCEPT
                !.status = status,
                !.results_count = IF resultsCount # None THEN resultsCount[1] ELSE @,
                !.completed_at = IF status \in {"completed", "failed"} THEN Some(t) ELSE @,
                !.error_message = IF errorMessage # None /\ errorMessage[1] # <<>>
                                  THEN errorMessage ELSE @]]

\* ------------------------------------------------------------------ state
VARIABLES
    search_runs,    \* table search_runs: sequence of rows, id = index
    competitors,    \* table competitors: sequence of rows in insertion order
    jobs,           \* queue 'discovery': job state and data per run id
    worker,         \* per job: position and locals of the handler execution
    clock,          \* wall clock read by new Date()
    firecrawlKey,   \* whether FIRECRAWL_API_KEY is configured
    legacy,         \* per job: position and locals of the legacy handler handleSearch
    request,        \* the last request served (createRun call, status update) and its outcome
    script          \* the answers of the upstream services when a behaviour fixes them, else None

vars == <<search_runs, competitors, jobs, worker, clock, firecrawlKey, legacy, request, script>>
\* what the processors/discovery.processor.ts pipeline never touches
aux == <<legacy, request, script>>

\* a slot of the queue without a job
NoJob == [state |-> "none", attemptsMade |-> 0]

Idle == [pc |-> "none", allResults |-> <<>>, calls |-> <<>>,
         extracted |-> <<>>, unique |-> <<>>, savedCount |-> 0, error |-> <<>>,
         faults |-> {}]

\* the recoverable faults a log of provider calls shows
FaultsOf(calls) == {calls[i].provider : i \in {j \in DOMAIN calls : calls[j].result # "ok"}}

Init ==
    /\ search_runs = <<>>
    /\ competitors = <<[organization_id |-> OtherOrg, search_run_id |-> 0,
                         name |-> "Beta", website |-> SiteB, embedding |-> TRUE]>>
    /\ jobs = [r \in RunIds |-> NoJob]
    /\ worker = [r \in RunIds |-> Idle]
    /\ clock = 1
    /\ firecrawlKey \in BOOLEAN
    /\ legacy = [r \in RunIds |-> [pc |-> "none"]]
    /\ request = None
    /\ script = None

\* variant: the organization of the project is not compared with the caller's
ProjectBelongs_AnyOrg(projectId, organizationId) == projectId \in ProjectIds

\* createRun lines 87-96: the project exists and belongs to the organization
ProjectBelongs(projectId, organizationId) ==
    projectId \in ProjectIds /\ ProjectOrg[projectId] = organizationId

\* DiscoveryService.createRun; insertOk is whether the insert into search_runs
\* succeeds, enqueueOk whether discoveryQueue.add does.  The call throws
\* NotFoundException or the insert error, or inserts the run row and then adds
\* the job; an error of queue.add is thrown to the caller, the row stays.
CreateRun(organizationId, userId, projectId, keywords, regions, industries, insertOk, enqueueOk) ==
    LET id == Len(search_runs) + 1
        outcome == IF ~ProjectBelongs(projectId, organizationId) THEN "not_found"
                   ELSE IF ~insertOk THEN "error"
                   ELSE IF ~enqueueOk THEN "enqueue_error" ELSE "created"
        inserted == outcome \in {"created", "enqueue_error"}
    IN /\ inserted => Len(search_runs) < MaxRuns
       /\ request' = Some([op |-> "createRun", outcome |-> outcome,
                            runId |-> IF inserted THEN id ELSE 0,
                            organizationId |-> organizationId, projectId |-> projectId,
                            keywords |-> keywords, regions |-> regions])
       /\ search_runs' = IF inserted
                         THEN Append(search_runs,
                                [project_id |-> projectId, status |-> "pending",
                                 regions |-> regions, keywords |-> keywords, results_count |-> 0,
                                 error_message |-> None, completed_at |-> None, created_by |-> userId])
                         ELSE search_runs
       /\ jobs' = IF outcome = "created"
                  THEN [jobs EXCEPT ![id] =
                          [state |-> "waiting", attemptsMade |-> 0,
                           runId |-> id, organizationId |-> organizationId, keywords |-> keywords,
                           regions |-> regions, industries |-> industries]]
                  ELSE jobs
       /\ UNCHANGED <<competitors, worker, clock, firecrawlKey, legacy, script>>

\* the tag the call log keeps of one provider response
CallTag(provider, response) ==
    [provider |-> provider,
     result |-> IF response.success THEN "ok"
                ELSE IF response.error = "INSUFFICIENT_CREDITS" THEN "credits" ELSE "error",
     count |-> Len(response.results)]

\* whether the for-of over queries stops after this response (line 124-127)
StopsLoop(response) == ~response.success /\ response.error = "INSUFFICIENT_CREDITS"

\* the for-of over queries of searchCompetitors (lines 111-131): st carries
\* allResults and the log of provider calls, outcomes[i] is what the Firecrawl
\* client does on the i-th call
RECURSIVE PrimaryLoop(_, _, _)
PrimaryLoop(st, queries, outcomes) ==
    IF queries = <<>> THEN st
    ELSE LET response == FirecrawlSearch(Head(outcomes))
             next == [allResults |-> IF response.success
                                     THEN AddUnseen(st.allResults, response.results)
                                     ELSE st.allResults,
                      calls |-> Append(st.calls, CallTag("firecrawl", response))]
         IN IF StopsLoop(response) THEN next
            ELSE PrimaryLoop(next, Tail(queries), Tail(outcomes))

\* variant: the fallback is called whatever the primary gathered
UseFallback_Always(st) == TRUE

\* whether searchCompetitors calls the AI fallback after the loop (line 135)
UseFallback(st) == Len(st.allResults) = 0

\* DiscoveryProcessor.searchCompetitors
searchCompetitors(context, available, outcomes, aiOutcome) ==
    LET queries == buildSearchQueries(context)
        start == [allResults |-> <<>>, calls |-> <<>>]
        st == IF available THEN PrimaryLoop(start, queries, outcomes) ELSE start
        response == AiFallbackSearch(aiOutcome)
    IN IF UseFallback(st)
       THEN [allResults |-> IF response.success THEN st.allResults \o response.results
                            ELSE st.allResults,
             calls |-> Append(st.calls, CallTag("ai", response))]
       ELSE st

\* process, lines 44-46: status searching
ProcessStart(r) ==
    /\ jobs[r].state = "waiting"
    /\ jobs' = [jobs EXCEPT ![r].state = "active", ![r].attemptsMade = @ + 1]
    /\ worker' = [worker EXCEPT ![r] = [Idle EXCEPT !.pc = "search"]]
    /\ search_runs' = updateStatus(search_runs, r, "searching", None, None, clock)
    /\ UNCHANGED <<competitors, clock, firecrawlKey, aux>>

\* process, lines 48-50: searchCompetitors with the answers of the providers
SearchWith(r, outcomes, aiOutcome) ==
    /\ worker[r].pc = "search"
    /\ LET res == searchCompetitors(jobs[r], firecrawlKey, outcomes, aiOutcome)
       IN worker' = [worker EXCEPT ![r] =
                [@ EXCEPT !.allResults = res.allResults, !.calls = res.calls, !.pc = "branch"]]
    /\ UNCHANGED <<search_runs, competitors, jobs, clock, firecrawlKey, aux>>

\* the answers the providers may give to the calls of one search step
SearchAnswers(context) == [1..Len(buildSearchQueries(context)) -> ClientOutcomes]

Search(r) ==
    /\ worker[r].pc = "search"
    /\ \E outcomes \in SearchAnswers(jobs[r]), aiOutcome \in AiOutcomes :
          SearchWith(r, outcomes, aiOutcome)

\* variant: the zero-result shortcut is missing
StatusAfterSearch_NoShortcut(searchResults) == "extracting"

\* the status written once searchCompetitors returned (lines 52-58)
StatusAfterSearch(searchResults) ==
    IF Len(searchResults) = 0 THEN "completed" ELSE "extracting"

\* lines 52-58: zero results complete the run, otherwise status extracting
Branch(r) ==
    /\ worker[r].pc = "branch"
    /\ LET st == StatusAfterSearch(worker[r].allResults)
       IN /\ search_runs' = updateStatus(search_runs, r, st,
                                IF st = "completed" THEN Some(0) ELSE None, None, clock)
          /\ worker' = [worker EXCEPT ![r] =
                [@ EXCEPT !.calls = <<>>, !.faults = FaultsOf(worker[r].calls),
                          !.pc = IF st = "extracting" THEN "extract" ELSE "returned_empty"]]
          /\ clock' = IF st = "completed" THEN clock + 1 ELSE clock
          /\ jobs' = IF st = "completed" THEN [jobs EXCEPT ![r].state = "completed"] ELSE jobs
    /\ UNCHANGED <<competitors, firecrawlKey, aux>>

\* variant: an error of the extractor's model call reaches the catch block of process
AfterExtract_Throws(outcome) == IF outcome.kind = "throw" THEN "catch" ELSE "dedup"

\* where process continues after basicExtractor.extract: the extractor catches
\* its own errors and returns [], so process goes on to the dedup step
AfterExtract(outcome) == "dedup"

\* lines 60-66: basicExtractor.extract
Extract(r, outcome) ==
    /\ worker[r].pc = "extract"
    /\ worker' = [worker EXCEPT ![r] =
            [@ EXCEPT !.extracted = BasicExtract(worker[r].allResults, outcome),
                      !.allResults = <<>>,
                      !.faults = IF outcome.kind = "json" THEN @ ELSE @ \cup {"extractor"},
                      !.pc = AfterExtract(outcome)]]
    /\ UNCHANGED <<search_runs, competitors, jobs, clock, firecrawlKey, aux>>

\* lines 68-73: deduplicateCompetitors reads the organization's rows
Dedup(r) ==
    /\ worker[r].pc = "dedup"
    /\ worker' = [worker EXCEPT ![r] =
            [@ EXCEPT !.unique = deduplicateCompetitors(worker[r].extracted, competitors,
                                                        jobs[r].organizationId),
                      !.extracted = <<>>,
                      !.pc = "save"]]
    /\ UNCHANGED <<search_runs, competitors, jobs, clock, firecrawlKey, aux>>

\* the rows saveCompetitors sends in one insert
Records(cands, runId, organizationId) ==
    [i \in DOMAIN cands |->
        [organization_id |-> organizationId, search_run_id |-> runId,
         name |-> cands[i].name, website |-> cands[i].website, embedding |-> FALSE]]

\* the error saveCompetitors throws on an insert error
SaveError(dbMessage) == <<"Failed to save competitors: ", dbMessage>>

\* lines 75-81: saveCompetitors, the insert succeeds as a whole
SaveOk(r) ==
    /\ worker[r].pc = "save"
    /\ competitors' = competitors \o Records(worker[r].unique, r, jobs[r].organizationId)
    /\ worker' = [worker EXCEPT ![r] = [@ EXCEPT !.savedCount = Len(worker[r].unique), !.unique = <<>>, !.pc = "complete"]]
    /\ UNCHANGED <<search_runs, jobs, clock, firecrawlKey, aux>>

\* lines 241-250: the insert returns an error, saveCompetitors throws
SaveFail(r, dbMessage) ==
    /\ worker[r].pc = "save"
    /\ Len(worker[r].unique) > 0
    /\ worker' = [worker EXCEPT ![r] =
            [@ EXCEPT !.error = SaveError(dbMessage), !.unique = <<>>, !.pc = "catch"]]
    /\ UNCHANGED <<search_runs, competitors, jobs, clock, firecrawlKey, aux>>

\* lines 83-89: status completed with the saved count
Complete(r) ==
    /\ worker[r].pc = "complete"
    /\ search_runs' = updateStatus(search_runs, r, "completed", Some(worker[r].savedCount), None, clock)
    /\ clock' = clock + 1
    /\ worker' = [worker EXCEPT ![r].pc = "returned"]
    /\ jobs' = [jobs EXCEPT ![r].state = "completed"]
    /\ UNCHANGED <<competitors, firecrawlKey, aux>>

\* the execution of process for run r has returned
Finished(r) == worker[r].pc \in {"returned", "returned_empty"}

\* variant: the catch block does not pass the message on
CatchUpdate_NoMessage(rows, r, error, t) == updateStatus(rows, r, "failed", Some(0), None, t)

\* the update the catch block writes (line 93)
CatchUpdate(rows, r, error, t) == updateStatus(rows, r, "failed", Some(0), Some(error), t)

\* lines 91-95: the catch block, then the error is thrown to the queue
Catch(r) ==
    /\ worker[r].pc = "catch"
    /\ search_runs' = CatchUpdate(search_runs, r, worker[r].error, clock)
    /\ worker' = [worker EXCEPT ![r].pc = "thrown"]
    /\ jobs' = [jobs EXCEPT ![r].state = "failed"]
    /\ UNCHANGED <<competitors, clock, firecrawlKey, aux>>

\* the queue hands a failed job to the handler again, up to MaxAttempts
\* executions per job (the queue's attempts setting)
Retry(r) ==
    /\ jobs[r].state = "failed"
    /\ jobs[r].attemptsMade < MaxAttempts
    /\ jobs' = [jobs EXCEPT ![r].state = "waiting"]
    /\ UNCHANGED <<search_runs, competitors, worker, clock, firecrawlKey, aux>>

Next ==
    \/ \E p \in ProjectIds, u \in Users, k \in KeywordLists,
          g \in RegionLists, n \in IndustryLists :
          CreateRun(ProjectOrg[p], u, p, k, g, n, TRUE, TRUE)
    \/ \E r \in RunIds : ProcessStart(r)
    \/ \E r \in RunIds : Search(r)
    \/ \E r \in RunIds : Branch(r)
    \/ \E r \in RunIds, oc \in ExtractOutcomes : Extract(r, oc)
    \/ \E r \in RunIds : Dedup(r)
    \/ \E r \in RunIds : SaveOk(r)
    \/ \E r \in RunIds, m \in DbErrors : SaveFail(r, m)
    \/ \E r \in RunIds : Complete(r)
    \/ \E r \in RunIds : Catch(r)
    \/ \E r \in RunIds : Retry(r)

Spec == Init /\ [][Next]_vars

\* ------------------------------------- legacy handler: handleSearch
\* the year new Date().getFullYear() returns
CurrentYear == 2025
\* variant: a threshold five points lower
MINIMUM_SCORE_THRESHOLD_FiveLower == 75 - 5

MINIMUM_SCORE_THRESHOLD == 75

LegacyIndustryLists == {<<>>, <<"fintech">>}

\* a value the model returned where a string was asked for
NotAString == "#234"

\* String.prototype.toLowerCase / toUpperCase on the strings of the model
LowerStr(x) ==
    CASE x = "Fintech Payments" -> "fintech payments" [] x = "Health" -> "health"
      [] x = "NG" -> "ng" [] x = "KE" -> "ke" [] OTHER -> x
UpperStr(x) ==
    CASE x = "ng" -> "NG" [] x = "ke" -> "KE" [] OTHER -> x

\* String.prototype.includes on lower-cased strings
Includes(hay, needle) ==
    \/ needle = ""
    \/ hay = needle
    \/ <<hay, needle>> \in {<<"fintech payments", "fintech">>, <<"fintech payments", "payments">>}

\* CompetitorData records the extraction model may return
Strong == [name |-> "Acme", website |-> SiteA, description |-> "d", business_model |-> "b",
           value_proposition |-> "v", industry |-> "Fintech Payments", country |-> "ng",
           founded_year |-> 2023, funding_raised |-> 2000000]
Weak == [name |-> "Beta", website |-> SiteB, description |-> "", business_model |-> "",
         value_proposition |-> "", industry |-> "Health", country |-> "KE",
         founded_year |-> 0, funding_raised |-> 0]
Malformed == [Strong EXCEPT !.country = NotAString]
LegacyCands == {Strong, Weak, Malformed}

\* ScoringService.calculateRelevanceScore throws a TypeError when country is not a string
ScoreThrows(competitor, context) ==
    context.targetCountry # "" /\ competitor.country = NotAString

ScoreError == <<"competitor.country.toUpperCase is not a function">>

\* variant: the three age tests are not exclusive
RecencyPoints_NoElse(founded_year) ==
    LET age == CurrentYear - founded_year
    IN IF founded_year = 0 THEN 0
       ELSE (IF age <= 3 THEN 15 ELSE 0) + (IF age <= 5 THEN 10 ELSE 0)
            + (IF age <= 10 THEN 5 ELSE 0)

\* calculateRelevanceScore lines 50-58: points for the founding year (0 = absent)
RecencyPoints(founded_year) ==
    LET age == CurrentYear - founded_year
    IN IF founded_year = 0 THEN 0
       ELSE IF age <= 3 THEN 15 ELSE IF age <= 5 THEN 10 ELSE IF age <= 10 THEN 5 ELSE 0

\* ScoringService.calculateRelevanceScore
calculateRelevanceScore(competitor, context) ==
    LET industry ==
            IF Len(context.targetIndustries) > 0 /\ competitor.industry # ""
               /\ \E i \in DOMAIN context.targetIndustries :
                    Includes(LowerStr(competitor.industry), LowerStr(context.targetIndustries[i]))
            THEN 30 ELSE 0
        geo ==
            IF context.targetCountry # "" /\ competitor.country # ""
               /\ UpperStr(competitor.country) = UpperStr(context.targetCountry)
            THEN 25 ELSE 0
        filled == Cardinality({f \in {"name", "description", "business_model",
                                      "value_proposition"} : competitor[f] # ""})
                  + (IF competitor.website # NoSite THEN 1 ELSE 0)
        \* Math.round(filled / 5 * 20)
        completeness == ((filled * 20 * 2) + 5) \div (5 * 2)
        recency == RecencyPoints(competitor.founded_year)
        funding ==
            IF competitor.funding_raised = 0 THEN 0
            ELSE IF competitor.funding_raised >= 1000000 THEN 10
            ELSE IF competitor.funding_raised >= 100000 THEN 5 ELSE 0
    IN industry + geo + completeness + recency + funding

\* ScoringService.isRelevant
isRelevant(competitor, context) ==
    calculateRelevanceScore(competitor, context) >= MINIMUM_SCORE_THRESHOLD

\* results of one firecrawlService.searchWithContext call: url and whether the
\* markdown or description has at least 100 characters
LegacyHits == {[url |-> "s1", long |-> TRUE], [url |-> "s2", long |-> FALSE]}

\* the (region, keyword) pairs of the two nested loops, region-major
RECURSIVE PairsOfRegion(_, _)
PairsOfRegion(region, terms) ==
    IF terms = <<>> THEN <<>>
    ELSE <<[region |-> region, keyword |-> Head(terms)]>> \o PairsOfRegion(region, Tail(terms))

RECURSIVE LoopPairs(_, _)
LoopPairs(regions, terms) ==
    IF regions = <<>> THEN <<>>
    ELSE PairsOfRegion(Head(regions), terms) \o LoopPairs(Tail(regions), terms)

\* handleSearch line 45: the requests of KeywordLists all carry keywords
SearchTerms(params) == params.keywords

LegacyIdle == [pc |-> "none", pairs |-> <<>>, pending |-> <<>>, allCompetitors |-> 0,
               error |-> <<>>]

\* what the embedding call and the match_competitors rpc of checkDuplicate do
DupChecks == {"similar", "none", "error"}

\* checkDuplicate: an embedding failure or an rpc error counts as no duplicate;
\* match_competitors only returns rows of the organization that carry an embedding
checkDuplicate(dupCheck, rows, organizationId) ==
    /\ dupCheck = "similar"
    /\ \E i \in DOMAIN rows : rows[i].organization_id = organizationId /\ rows[i].embedding

\* what the embedding call and the two inserts of saveCompetitor do: the full
\* insert succeeds, only the fallback insert succeeds, both fail, or the
\* embedding call throws
SaveOutcomes == {"ok", "fallback", "fail", "embedding_error"}

\* the rows saveCompetitor leaves: a failed embedding or two failed inserts leave none
SavedRows(competitor, runId, organizationId, save) ==
    IF save \in {"fail", "embedding_error"} THEN <<>>
    ELSE <<[organization_id |-> organizationId, search_run_id |-> runId,
            name |-> competitor.name, website |-> competitor.website,
            embedding |-> (save = "ok")]>>

\* handleSearch lines 33-35: status running
LegacyStart(r) ==
    /\ jobs[r].state = "waiting"
    /\ jobs' = [jobs EXCEPT ![r].state = "active", ![r].attemptsMade = @ + 1]
    /\ legacy' = [legacy EXCEPT ![r] =
            [LegacyIdle EXCEPT !.pc = "loop",
                               !.pairs = LoopPairs(jobs[r].regions, SearchTerms(jobs[r]))]]
    /\ search_runs' = updateRunStatus(search_runs, r, "running", None, None, clock)
    /\ UNCHANGED <<competitors, worker, clock, firecrawlKey, request, script>>

\* lines 56-69: one searchWithContext call ([] on a provider error)
LegacySearch(r, results) ==
    /\ legacy[r].pc = "loop"
    /\ legacy[r].pairs # <<>>
    /\ legacy' = [legacy EXCEPT ![r] =
            [@ EXCEPT !.pending = results,
                      !.pairs = IF results = <<>> THEN Tail(@) ELSE @,
                      !.pc = IF results = <<>> THEN "loop" ELSE "results"]]
    /\ UNCHANGED <<search_runs, competitors, jobs, worker, clock, firecrawlKey, request, script>>

\* what lines 72-114 do with one result
ResultStep(hit, extraction, context, isDuplicate) ==
    IF ~hit.long THEN "skip"
    ELSE IF extraction = None THEN "skip"
    ELSE IF ScoreThrows(extraction[1], context) THEN "throw"
    ELSE IF ~isRelevant(extraction[1], context) THEN "skip"
    ELSE IF isDuplicate THEN "skip"
    ELSE "save"

\* lines 72-114: one iteration of the for-of over searchResults
LegacyResult(r, extraction, dupCheck, save) ==
    /\ legacy[r].pc = "results"
    /\ LET w == legacy[r]
           hit == Head(w.pending)
           context == [targetIndustries |-> jobs[r].industries,
                       targetCountry |-> Head(w.pairs).region]
           step == ResultStep(hit, extraction, context,
                              checkDuplicate(dupCheck, competitors, jobs[r].organizationId))
           last == Len(w.pending) = 1
       IN /\ legacy' = [legacy EXCEPT ![r] =
                IF step = "throw"
                THEN [w EXCEPT !.error = ScoreError, !.pending = <<>>, !.pc = "catch"]
                ELSE [w EXCEPT !.allCompetitors = IF step = "save" THEN @ + 1 ELSE @,
                               !.pending = Tail(@),
                               !.pairs = IF last THEN Tail(@) ELSE @,
                               !.pc = IF last THEN "loop" ELSE "results"]]
          /\ competitors' =
                IF step = "save"
                THEN competitors \o SavedRows(extraction[1], r, jobs[r].organizationId, save)
                ELSE competitors
    /\ UNCHANGED <<search_runs, jobs, worker, clock, firecrawlKey, request, script>>

\* lines 121-123: status completed with allCompetitors.length
LegacyComplete(r) ==
    /\ legacy[r].pc = "loop"
    /\ legacy[r].pairs = <<>>
    /\ search_runs' = updateRunStatus(search_runs, r, "completed",
                                      Some(legacy[r].allCompetitors), None, clock)
    /\ clock' = clock + 1
    /\ legacy' = [legacy EXCEPT ![r].pc = "returned"]
    /\ jobs' = [jobs EXCEPT ![r].state = "completed"]
    /\ UNCHANGED <<competitors, worker, firecrawlKey, request, script>>

\* lines 124-128: the catch block
LegacyCatch(r) ==
    /\ legacy[r].pc = "catch"
    /\ search_runs' = updateRunStatus(search_runs, r, "failed", Some(0),
                                      Some(legacy[r].error), clock)
    /\ clock' = clock + 1
    /\ legacy' = [legacy EXCEPT ![r].pc = "thrown"]
    /\ jobs' = [jobs EXCEPT ![r].state = "failed"]
    /\ UNCHANGED <<competitors, worker, firecrawlKey, request, script>>

NextLegacy ==
    \/ \E p \in ProjectIds, u \in Users, k \in KeywordLists,
          g \in RegionLists, n \in LegacyIndustryLists :
          CreateRun(ProjectOrg[p], u, p, k, g, n, TRUE, TRUE)
    \/ \E r \in RunIds : LegacyStart(r)
    \/ \E r \in RunIds, res \in SeqsUpTo(LegacyHits, MaxHits) : LegacySearch(r, res)
    \/ \E r \in RunIds, ex \in {None} \cup {Some(c) : c \in LegacyCands},
          dup \in DupChecks, save \in SaveOutcomes : LegacyResult(r, ex, dup, save)
    \/ \E r \in RunIds : LegacyComplete(r)
    \/ \E r \in RunIds : LegacyCatch(r)
    \/ \E r \in RunIds : Retry(r)

InitLegacy == Init /\ firecrawlKey = FALSE

SpecLegacy == InitLegacy /\ [][NextLegacy]_vars

\* ------------------------------------- POST /discovery/runs and createRun
\* project ids a request may name: a project, an unknown uuid, not a uuid
RequestProjectIds == {"p1", "p9", "bad"}
IsUUID(x) == x # "bad"

\* a list field of the request body: an array of strings, or something else
BodyList(items) == [array |-> TRUE, items |-> items]
NotAnArray == [array |-> FALSE, items |-> <<>>]
BodyKeywords == {BodyList(<<>>), BodyList(<<"k1">>), BodyList(<<"k1", "k2">>), NotAnArray}
BodyRegions == {BodyList(<<>>), BodyList(<<"NG">>), NotAnArray}
Bodies == [projectId : RequestProjectIds, keywords : BodyKeywords, regions : BodyRegions]

\* the decorators of CreateDiscoveryRunDto: @IsUUID, @IsArray, @IsString({each: true})
validateDto(body) ==
    /\ IsUUID(body.projectId)
    /\ body.regions.array
    /\ body.keywords.array

\* DiscoveryController.createRun: the body is validated against the DTO, then
\* the service is called
PostRuns(organizationId, userId, body, insertOk) ==
    IF validateDto(body)
    THEN CreateRun(organizationId, userId, body.projectId, body.keywords.items,
                   body.regions.items, <<>>, insertOk, TRUE)
    ELSE /\ request' = Some([op |-> "validate", outcome |-> "bad_request", runId |-> 0,
                              organizationId |-> organizationId,
                              projectId |-> body.projectId,
                              keywords |-> body.keywords.items,
                              regions |-> body.regions.items])
         /\ UNCHANGED <<search_runs, competitors, jobs, worker, clock, firecrawlKey, legacy, script>>

NextService ==
    \E o \in Orgs, u \in Users, body \in Bodies, insertOk \in BOOLEAN :
        PostRuns(o, u, body, insertOk)

\* the key of the search provider plays no part in the service
InitService == Init /\ firecrawlKey

SpecService == InitService /\ [][NextService]_vars

\* ------------------------- the same discovery run again, same upstream
\* the job data of the runs created here
RerunContext == [keywords |-> <<"k1", "k2">>, regions |-> <<"NG">>, industries |-> <<>>]

\* one answer per provider call and per model call, given again on every run
Scripts == [outcomes : SearchAnswers(RerunContext), ai : AiOutcomes, extract : ExtractOutcomes]

InitRerun ==
    /\ search_runs = <<>>
    /\ competitors = <<[organization_id |-> OtherOrg, search_run_id |-> 0,
                         name |-> "Beta", website |-> SiteB, embedding |-> TRUE]>>
    /\ jobs = [r \in RunIds |-> NoJob]
    /\ worker = [r \in RunIds |-> Idle]
    /\ clock = 1
    /\ firecrawlKey \in BOOLEAN
    /\ legacy = [r \in RunIds |-> [pc |-> "none"]]
    /\ request = None
    /\ script \in {Some(sc) : sc \in Scripts}

\* a run starts once the run before it has returned
RerunStart(r) ==
    /\ r > 1 => Finished(r - 1)
    /\ ProcessStart(r)

NextRerun ==
    \/ \E p \in ProjectIds, u \in Users :
          CreateRun(ProjectOrg[p], u, p, RerunContext.keywords, RerunContext.regions,
                    RerunContext.industries, TRUE, TRUE)
    \/ \E r \in RunIds : RerunStart(r)
    \/ \E r \in RunIds : SearchWith(r, script[1].outcomes, script[1].ai)
    \/ \E r \in RunIds : Branch(r)
    \/ \E r \in RunIds : Extract(r, script[1].extract)
    \/ \E r \in RunIds : Dedup(r)
    \/ \E r \in RunIds : SaveOk(r)
    \/ \E r \in RunIds, m \in DbErrors : SaveFail(r, m)
    \/ \E r \in RunIds : Complete(r)
    \/ \E r \in RunIds : Catch(r)

SpecRerun == InitRerun /\ [][NextRerun]_vars

\* ------------------------------------------------------ the scorer alone
\* candidates handed to the scorer: every combination of industry, country,
\* filled fields, founding year (0 = absent, 2030 = in the future) and funding
\* (0 = absent)
ScoreCands ==
    [name : {"", "Acme"}, website : {NoSite, SiteA}, description : {"", "d"},
     business_model : {"", "b"}, value_proposition : {"", "v"},
     industry : {"", "Fintech Payments", "Health"}, country : {"", "ng", "KE"},
     founded_year : {0, 1990, 2016, 2021, 2023, 2030},
     funding_raised : {0, 50000, 100000, 2000000}]

ScoreContexts == [targetIndustries : {<<>>, <<"fintech">>}, targetCountry : {"", "NG"}]

\* one call of ScoringService.calculateRelevanceScore (one call per behaviour:
\* the function keeps no state between calls)
ScoreCall(competitor, context) ==
    /\ ~ScoreThrows(competitor, context)
    /\ request' = Some([op |-> "calculateRelevanceScore", competitor |-> competitor,
                         context |-> context,
                         score |-> calculateRelevanceScore(competitor, context)])
    /\ UNCHANGED <<search_runs, competitors, jobs, worker, clock, firecrawlKey, legacy, script>>

NextScore ==
    /\ request = None
    /\ \E c \in ScoreCands, ctx \in ScoreContexts : ScoreCall(c, ctx)

SpecScore == InitService /\ [][NextScore]_vars

\* ---------------------------------------- external calls that do not return
\* the await of a provider search or of the extractor's model call stays
\* pending: process sets no timer around its awaits and queue.add passes no
\* job options, so nothing else resumes or cancels the job
CallNeverReturns(r) ==
    /\ worker[r].pc \in {"search", "extract"}
    /\ worker' = [worker EXCEPT ![r].pc = "pending"]
    /\ UNCHANGED <<search_runs, competitors, jobs, clock, firecrawlKey, aux>>

NextBudget ==
    \/ \E p \in ProjectIds, u \in Users, k \in KeywordLists,
          g \in RegionLists, n \in IndustryLists :
          CreateRun(ProjectOrg[p], u, p, k, g, n, TRUE, TRUE)
    \/ \E r \in RunIds : ProcessStart(r)
    \/ \E r \in RunIds : Search(r)
    \/ \E r \in RunIds : CallNeverReturns(r)
    \/ \E r \in RunIds : Branch(r)
    \/ \E r \in RunIds, oc \in ExtractOutcomes : Extract(r, oc)
    \/ \E r \in RunIds : Dedup(r)
    \/ \E r \in RunIds : SaveOk(r)
    \/ \E r \in RunIds, m \in DbErrors : SaveFail(r, m)
    \/ \E r \in RunIds : Complete(r)
    \/ \E r \in RunIds : Catch(r)

\* no FIRECRAWL_API_KEY: the search step goes to the fallback model
InitBudget == Init /\ firecrawlKey = FALSE

\* the worker takes the next step of a handler whenever one can be taken
SpecBudget == InitBudget /\ [][NextBudget]_vars /\ WF_vars(NextBudget)

\* ------------------------------------- runs whose job may not be enqueued
\* createRun with a queue that may refuse the job, and the steps of process;
\* every awaited call returns
NextLive ==
    \/ \E p \in ProjectIds, u \in Users, k \in KeywordLists,
          g \in RegionLists, n \in IndustryLists, enqueueOk \in BOOLEAN :
          CreateRun(ProjectOrg[p], u, p, k, g, n, TRUE, enqueueOk)
    \/ \E r \in RunIds : ProcessStart(r)
    \/ \E r \in RunIds : Search(r)
    \/ \E r \in RunIds : Branch(r)
    \/ \E r \in RunIds, oc \in ExtractOutcomes : Extract(r, oc)
    \/ \E r \in RunIds : Dedup(r)
    \/ \E r \in RunIds : SaveOk(r)
    \/ \E r \in RunIds, m \in DbErrors : SaveFail(r, m)
    \/ \E r \in RunIds : Complete(r)
    \/ \E r \in RunIds : Catch(r)

\* the worker takes the next step of a handler whenever one can be taken
SpecLive == InitBudget /\ [][NextLive]_vars /\ WF_vars(NextLive)

\* ------------------------------------- per-country worker (workers/index.ts)
\* One run with MaxJobs per-country jobs, at most as many as the worker's
\* concurrency of 5.  In this specification jobs[j] is the job j with the
\* status of its discovery_queue row, worker[j] the position of its handler
\* (seen: what the select of updateSearchRunProgress returned) and
\* search_runs[1] the row of the run.  The supabase client returns its errors,
\* so the updates do not throw; steps 2-5 throw when the job data is malformed.
WorkerJobs == 1..MaxJobs

InitWorker ==
    /\ search_runs = <<[status |-> "running", completed_at |-> None]>>
    /\ jobs = [j \in WorkerJobs |-> [state |-> "waiting", status |-> "pending"]]
    /\ worker = [j \in WorkerJobs |-> [pc |-> "none", seen |-> <<>>]]
    /\ competitors = <<>>
    /\ clock = 1
    /\ firecrawlKey = FALSE
    /\ legacy = <<>>
    /\ request = None
    /\ script = None

\* lines 27-34: the worker takes job j; updateQueueStatus(job.id, 'processing')
WorkerProcessing(j) ==
    /\ jobs[j].state = "waiting"
    /\ jobs' = [jobs EXCEPT ![j] = [state |-> "active", status |-> "processing"]]
    /\ worker' = [worker EXCEPT ![j].pc = "steps"]
    /\ UNCHANGED <<search_runs, competitors, clock, firecrawlKey, aux>>

\* lines 36-53: steps 2-5, then updateQueueStatus(job.id, 'completed'); an
\* error thrown by the steps goes to the catch block
WorkerCompleted(j, throws) ==
    /\ worker[j].pc = "steps"
    /\ jobs' = IF throws THEN jobs ELSE [jobs EXCEPT ![j].status = "completed"]
    /\ worker' = [worker EXCEPT ![j].pc = IF throws THEN "catch" ELSE "progress"]
    /\ UNCHANGED <<search_runs, competitors, clock, firecrawlKey, aux>>

\* updateSearchRunProgress lines 98-105: the select of the run's queue items
WorkerProgressRead(j) ==
    /\ worker[j].pc = "progress"
    /\ worker' = [worker EXCEPT ![j] =
            [pc |-> "decide", seen |-> [i \in WorkerJobs |-> jobs[i].status]]]
    /\ UNCHANGED <<search_runs, competitors, jobs, clock, firecrawlKey, aux>>

\* lines 103-117 and 58-60: when every item seen is completed or failed the
\* run is set to completed; the handler returns
WorkerProgressUpdate(j) ==
    /\ worker[j].pc = "decide"
    /\ LET allCompleted == \A i \in WorkerJobs : worker[j].seen[i] \in {"completed", "failed"}
       IN /\ search_runs' = IF allCompleted
                            THEN [search_runs EXCEPT ![1] =
                                     [status |-> "completed", completed_at |-> Some(clock)]]
                            ELSE search_runs
          /\ clock' = IF allCompleted THEN clock + 1 ELSE clock
    /\ worker' = [worker EXCEPT ![j] = [pc |-> "returned", seen |-> <<>>]]
    /\ jobs' = [jobs EXCEPT ![j].state = "completed"]
    /\ UNCHANGED <<competitors, firecrawlKey, aux>>

\* lines 61-65: updateQueueStatus(job.id, 'failed', message); throw error
WorkerCatch(j) ==
    /\ worker[j].pc = "catch"
    /\ jobs' = [jobs EXCEPT ![j] = [state |-> "failed", status |-> "failed"]]
    /\ worker' = [worker EXCEPT ![j].pc = "thrown"]
    /\ UNCHANGED <<search_runs, competitors, clock, firecrawlKey, aux>>

NextWorker ==
    \/ \E j \in WorkerJobs : WorkerProcessing(j)
    \/ \E j \in WorkerJobs, throws \in BOOLEAN : WorkerCompleted(j, throws)
    \/ \E j \in WorkerJobs : WorkerProgressRead(j)
    \/ \E j \in WorkerJobs : WorkerProgressUpdate(j)
    \/ \E j \in WorkerJobs : WorkerCatch(j)

\* every handler that can take a step eventually takes one
SpecWorker == InitWorker /\ [][NextWorker]_vars /\ WF_vars(NextWorker)

\* ----------------------------------------------- the query builder alone
\* job data handed to buildSearchQueries: keywords and regions may be empty
\* lists (the DTO accepts them)
QueryContexts ==
    [keywords : SeqsUpTo({"k1", "k2", "k3"}, 3), regions : SeqsUpTo({"NG", "KE"}, 2),
     industries : {<<>>, <<"fintech">>}]

\* one call of DiscoveryProcessor.buildSearchQueries
BuildQueriesCall(context) ==
    /\ request' = Some([op |-> "buildSearchQueries", context |-> context,
                         queries |-> buildSearchQueries(context)])
    /\ UNCHANGED <<search_runs, competitors, jobs, worker, clock, firecrawlKey, legacy, script>>

\* trigger phrases a project description may contain, one per vertical; a
\* description is the set of those it contains (none contains another)
Triggers ==
    {"neobank", "mobile money", "fintech", "construction", "delivery", "farm", "health",
     "marketplace", "education"}

\* DiscoveryController.extractBusinessModel: the if-blocks in the order of the
\* code, each returning (geography stays null: no description names a place)
extractBusinessModel(desc) ==
    LET res(vertical, core, type) == [vertical |-> vertical, core |-> core, type |-> type]
    IN IF "construction" \in desc
       THEN res("construction materials",
                IF "marketplace" \in desc THEN "construction materials marketplace"
                ELSE IF "delivery" \in desc THEN "building materials delivery"
                ELSE "construction tech", "")
       ELSE IF "neobank" \in desc
       THEN res("neobank", "neobank challenger bank mobile banking", "B2C")
       ELSE IF "mobile money" \in desc
       THEN res("mobile money", "mobile money wallet Africa", "")
       ELSE IF "fintech" \in desc THEN res("fintech", "fintech startup", "")
       ELSE IF "delivery" \in desc THEN res("logistics", "logistics delivery platform", "")
       ELSE IF "farm" \in desc
       THEN res("agritech", IF "marketplace" \in desc THEN "agricultural marketplace"
                            ELSE "agritech platform", "")
       ELSE IF "health" \in desc THEN res("healthtech", "healthtech platform", "")
       ELSE IF "marketplace" \in desc THEN res("e-commerce", "e-commerce marketplace", "")
       ELSE IF "education" \in desc THEN res("edtech", "education technology platform", "")
       ELSE res("", "", "")

BusinessModelCall(desc) ==
    /\ request' = Some([op |-> "extractBusinessModel", desc |-> desc,
                        result |-> extractBusinessModel(desc)])
    /\ UNCHANGED <<search_runs, competitors, jobs, worker, clock, firecrawlKey, legacy, script>>

\* one call of a query-building function per behaviour
NextQueries ==
    /\ request = None
    /\ \/ \E context \in QueryContexts : BuildQueriesCall(context)
       \/ \E desc \in SUBSET Triggers : BusinessModelCall(desc)

SpecQueries == InitService /\ [][NextQueries]_vars

\* ------------------------------------------------- the search step alone
\* one call of DiscoveryProcessor.searchCompetitors; the fallback model may
\* list several companies, the same one twice included
SearchCall(context, outcomes, aiOutcome) ==
    /\ request' = Some([op |-> "searchCompetitors", available |-> firecrawlKey,
                         outcomes |-> outcomes, aiOutcome |-> aiOutcome,
                         res |-> searchCompetitors(context, firecrawlKey, outcomes, aiOutcome)])
    /\ UNCHANGED <<search_runs, competitors, jobs, worker, clock, firecrawlKey, legacy, script>>

\* websites of candidates and of stored rows: with and without a leading www,
\* with a www label inside the host name, and a missing one
DedupSites ==
    {SiteA, SiteWwwA, Url("https", <<"shop", "www", "a", "com">>, ""),
     Url("https", <<"shop", "a", "com">>, ""), NoSite}

\* one call of DiscoveryProcessor.deduplicateCompetitors for organization o1,
\* whose rows have the websites `stored`
DedupCall(cands, stored) ==
    LET rows == [i \in DOMAIN stored |-> [organization_id |-> "o1", website |-> stored[i]]]
    IN /\ request' = Some([op |-> "deduplicateCompetitors", cands |-> cands, stored |-> stored,
                           result |-> deduplicateCompetitors(cands, rows, "o1")])
       /\ UNCHANGED <<search_runs, competitors, jobs, worker, clock, firecrawlKey, legacy, script>>

\* one call of a step of the processor per behaviour
NextSearch ==
    /\ request = None
    /\ \/ \E outcomes \in SearchAnswers(RerunContext), aiOutcome \in AiAnswers(MaxAiHits) :
             SearchCall(RerunContext, outcomes, aiOutcome)
       \/ \E cands \in SeqsUpTo([name : {"N"}, website : DedupSites], MaxCand),
             stored \in SeqsUpTo(DedupSites, 1) : DedupCall(cands, stored)

SpecSearch == Init /\ [][NextSearch]_vars

\* ----------------------------------------------- EnrichmentService
\* A missing or empty string field is "", a missing object is None; social
\* links are the set of platforms that have a link. options.crawlDepth is left
\* unset (step 2 is skipped); the two scores computed at the end are not modelled.
Platforms == {"linkedin", "twitter", "facebook"}

\* what scrapeWithExtraction gave: None (null: no json, or the client threw and
\* the service caught it), else the extracted record
ExtractedData ==
    {None} \cup
    {Some(e) : e \in [company_name : {"", "ExtCo"}, description : {"", "edesc"},
                      business_model : {""}, value_proposition : {"", "evp"},
                      funding_stage : {"", "Seed"}, social_links : {{}, {"linkedin"}}]}

\* one call: url (host "" = not a URL), initialData, what the scrapes return
\* (pages: the profile pages scrapePage returned with markdown), the options
\* and the answer of the chat model
EnrichInputs ==
    [host : {"acme", ""},
     initial : [name : {"", "Init"}, description : {"", "idesc"}, business_model : {"", "ibm"},
                value_proposition : {"", "ivp"}, industry : {"", "iind"}],
     extracted : ExtractedData,
     siteLinks : {{}, {"twitter"}},
     pages : {{}, {"linkedin"}, Platforms},
     includeSocialMedia : BOOLEAN,
     ai : {"off", "json", "throw", "unparsable"}]

\* EnrichmentService.extractDomainName
extractDomainName(host) == IF host = "" THEN "Unknown" ELSE "Acme"

\* SocialMediaService.scrapeLinkedIn: the parsed page, or mockLinkedInData when
\* scrapePage returned no markdown (fields read by the merge only)
scrapeLinkedIn(hasMarkdown) ==
    IF hasMarkdown THEN [description |-> "", industry |-> ""]
    ELSE [description |-> "A leading technology company focused on innovation.",
          industry |-> "Financial Technology"]

\* EnrichmentService.mergeCompetitorData; a || b is the first non-empty one
mergeCompetitorData(initial, extracted, linkedinData, host) ==
    LET Or(a, b) == IF a # "" THEN a ELSE b
    IN [name |-> Or(extracted.company_name, Or(initial.name, extractDomainName(host))),
        description |-> Or(extracted.description, Or(initial.description, linkedinData.description)),
        business_model |-> Or(extracted.business_model, initial.business_model),
        value_proposition |-> extracted.value_proposition,
        industry |-> Or(linkedinData.industry, initial.industry),
        funding_stage |-> extracted.funding_stage]

\* EnrichmentService.generateAiAnalysis: its own try/catch returns {} when the
\* chat call throws or JSON.parse fails, so it never throws
generateAiAnalysis(answer) ==
    [threw |-> FALSE,
     value |-> IF answer = "json"
               THEN [competitive_analysis |-> Some([weaknesses |-> <<"w">>, opportunities |-> <<"o">>,
                                                    threats |-> <<"t">>]),
                     market_positioning |-> "position"]
               ELSE [competitive_analysis |-> None, market_positioning |-> ""]]

\* EnrichmentService.generateBasicAnalysis
generateBasicAnalysis(data) ==
    [competitive_analysis |-> Some([weaknesses |-> <<"Limited data available for analysis">>,
                                    opportunities |-> <<"Market expansion potential">>,
                                    threats |-> <<"Competitive market landscape">>]),
     market_positioning |-> IF data.business_model # "" THEN data.business_model
                            ELSE "Digital platform"]

\* EnrichmentService.enrichCompetitor
enrichCompetitor(in) ==
    LET noData == [company_name |-> "", description |-> "", business_model |-> "",
                   value_proposition |-> "", funding_stage |-> "", social_links |-> {}]
        extracted == IF in.extracted = None THEN noData ELSE in.extracted[1]
        found == extracted.social_links
        fromSite == IF "linkedin" \notin found /\ "twitter" \notin found
                    THEN found \cup in.siteLinks ELSE found
        socialLinks == IF fromSite = {} /\ in.initial.name # ""
                       THEN Platforms \cup {"instagram"} ELSE fromSite
        \* enrichWithSocialData: every scrape task resolves, with parsed or mock data
        socialProfile == IF in.includeSocialMedia /\ socialLinks # {}
                         THEN socialLinks \cap Platforms ELSE {}
        linkedinData == IF "linkedin" \in socialProfile
                        THEN scrapeLinkedIn("linkedin" \in in.pages)
                        ELSE [description |-> "", industry |-> ""]
        mergedData == mergeCompetitorData(in.initial, extracted, linkedinData, in.host)
        analysis == generateAiAnalysis(in.ai)
        aiAnalysis == IF in.ai = "off" THEN [competitive_analysis |-> None, market_positioning |-> ""]
                      ELSE IF analysis.threw THEN generateBasicAnalysis(mergedData)
                      ELSE analysis.value
        dataSources == <<"website">>
                       \o (IF "linkedin" \in socialProfile THEN <<"linkedin">> ELSE <<>>)
                       \o (IF "twitter" \in socialProfile THEN <<"twitter">> ELSE <<>>)
                       \o (IF "facebook" \in socialProfile THEN <<"facebook">> ELSE <<>>)
                       \o (IF in.ai # "off" /\ ~analysis.threw THEN <<"ai_analysis">> ELSE <<>>)
    IN [merged |-> mergedData,
        competitive_analysis |-> aiAnalysis.competitive_analysis,
        market_positioning |-> aiAnalysis.market_positioning,
        social_links |-> socialLinks,
        data_sources |-> dataSources]

EnrichCall(in) ==
    /\ request' = Some([op |-> "enrichCompetitor", in |-> in, result |-> enrichCompetitor(in)])
    /\ UNCHANGED <<search_runs, competitors, jobs, worker, clock, firecrawlKey, legacy, script>>

\* one call of a FirecrawlService method: search (arg: the query), scrapePage,
\* scrapeWithExtraction, crawlSite (arg: the url; "acme.com" has no scheme and
\* new URL() rejects it). configured: FIRECRAWL_API_KEY is set; client: what
\* the Firecrawl client does then. items holds the results or pages (a null
\* page is no item), record the extracted data.
FirecrawlService(method, arg, configured, client) ==
    LET answer(items, record) == [threw |-> FALSE, items |-> items, record |-> record]
        page(url) == [url |-> url, title |-> "Mock Company - Fintech Innovation",
                      markdown |-> "# Mock Company"]
    IN IF ~configured
       THEN CASE method = "search" ->
                   answer(<<[url |-> "https://example-fintech.com", title |-> "query - Leading Fintech Startup",
                             markdown |-> "# Startup"],
                            [url |-> "https://paytech.africa", title |-> "PayTech Africa - query Solutions",
                             markdown |-> "# PayTech Africa"],
                            [url |-> "https://afribank.com", title |-> "AfriBanking - query Platform",
                             markdown |-> "# AfriBanking"]>>, None)
              [] method = "scrapePage" -> answer(<<page(arg)>>, None)
              [] method = "scrapeWithExtraction" ->
                   \* mockExtractedData starts with new URL(url).hostname
                   IF arg = "acme.com" THEN [threw |-> TRUE, items |-> <<>>, record |-> None]
                   ELSE answer(<<>>, Some([company_name |-> "Example",
                                           description |-> "Example is a fintech company",
                                           social_links |-> {"linkedin", "twitter", "facebook", "crunchbase"}]))
              [] method = "crawlSite" ->
                   answer(<<page(arg), [url |-> "url/about", title |-> "About Us", markdown |-> "# About Us"],
                            [url |-> "url/team", title |-> "Our Team", markdown |-> "# Our Team"]>>, None)
       ELSE IF client # "data" THEN answer(<<>>, None)
       ELSE CASE method = "scrapeWithExtraction" ->
                   answer(<<>>, Some([company_name |-> "ExtCo", description |-> "edesc",
                                      social_links |-> {"linkedin"}]))
              [] OTHER -> answer(<<[url |-> "s1", title |-> "T1", markdown |-> "m1"]>>, None)

FirecrawlCall(method, arg, configured, client) ==
    /\ request' = Some([op |-> "FirecrawlService", method |-> method, arg |-> arg,
                        configured |-> configured,
                        result |-> FirecrawlService(method, arg, configured, client)])
    /\ UNCHANGED <<search_runs, competitors, jobs, worker, clock, firecrawlKey, legacy, script>>

\* one call of a service method per behaviour: the services keep no state
NextEnrich ==
    /\ request = None
    /\ \/ \E in \in EnrichInputs : EnrichCall(in)
       \/ \E method \in {"search", "scrapePage", "scrapeWithExtraction", "crawlSite"},
             arg \in {"https://example.com", "acme.com"}, configured \in BOOLEAN,
             client \in {"data", "empty", "throw"} : FirecrawlCall(method, arg, configured, client)

SpecEnrich == InitService /\ [][NextEnrich]_vars

\* ------------------------------------------------ status updates alone
MaxUpdates == 3     \* status updates applied in one behaviour of SpecStatus

\* arguments a caller may pass
CountArgs == {None} \cup {Some(n) : n \in 0..MaxCand}
MessageArgs == {None, Some(<<>>), Some(<<"boom">>)}

InitStatus ==
    /\ search_runs = <<[project_id |-> "p1", status |-> "pending",
                        regions |-> <<"NG">>, keywords |-> <<"k1", "k2">>, results_count |-> 0,
                        error_message |-> None, completed_at |-> None, created_by |-> "u1"]>>
    /\ competitors = <<>>
    /\ jobs = [r \in RunIds |-> NoJob]
    /\ worker = [r \in RunIds |-> Idle]
    /\ clock = 1
    /\ firecrawlKey = TRUE
    /\ legacy = [r \in RunIds |-> [pc |-> "none"]]
    /\ request = None
    /\ script = None

\* one call of DiscoveryProcessor.updateStatus
UpdateStatusCall(runId, status, resultsCount, errorMessage) ==
    /\ clock <= MaxUpdates
    /\ search_runs' = updateStatus(search_runs, runId, status, resultsCount, errorMessage, clock)
    /\ request' = Some([op |-> "updateStatus", runId |-> runId, status |-> status])
    /\ clock' = clock + 1
    /\ UNCHANGED <<competitors, jobs, worker, firecrawlKey, legacy, script>>

\* one call of the legacy DiscoveryProcessor.updateRunStatus
UpdateRunStatusCall(runId, status, resultsCount, errorMessage) ==
    /\ clock <= MaxUpdates
    /\ search_runs' = updateRunStatus(search_runs, runId, status, resultsCount, errorMessage, clock)
    /\ request' = Some([op |-> "updateRunStatus", runId |-> runId, status |-> status])
    /\ clock' = clock + 1
    /\ UNCHANGED <<competitors, jobs, worker, firecrawlKey, legacy, script>>

NextStatus ==
    \/ \E st \in Statuses, n \in CountArgs, m \in MessageArgs : UpdateStatusCall(1, st, n, m)
    \/ \E st \in {"pending", "running", "completed", "failed"}, n \in CountArgs,
          m \in MessageArgs : UpdateRunStatusCall(1, st, n, m)

SpecStatus == InitStatus /\ [][NextStatus]_vars

\* ------------------------------------------------------------ properties
\* position of a status in pending < searching < extracting < (completed | failed)
Rank(status) ==
    CASE status = "pending" -> 0 [] status = "searching" -> 1
      [] status = "extracting" -> 2 [] OTHER -> 3

Created == DOMAIN search_runs

\* number of competitor rows attached to run r
RowsOfRun(rows, r) == Cardinality({i \in DOMAIN rows : rows[i].search_run_id = r})

\* the domains of the rows of an organization
OrgDomains(rows, org) ==
    {extractDomain(rows[i].website) : i \in {j \in DOMAIN rows : rows[j].organization_id = org}}


\* C1: the stored status of a run never moves to an earlier one in
\* pending < searching < extracting < (completed | failed)
C1_StatusOnlyMovesForward ==
    [][\A r \in Created : Rank(search_runs'[r].status) >= Rank(search_runs[r].status)]_vars

\* C2: a status update that carries pending, searching or extracting for a run
\* whose status is completed is rejected: status, results_count and completed_at
\* of the run stay as they are
C2_LowerStatusRejected ==
    [][\A r \in Created :
        (/\ request' # None
         /\ request'[1].runId = r
         /\ search_runs[r].status = "completed"
         /\ request'[1].status \in {"pending", "searching", "extracting"})
        => /\ search_runs'[r].status = search_runs[r].status
           /\ search_runs'[r].results_count = search_runs[r].results_count
           /\ search_runs'[r].completed_at = search_runs[r].completed_at]_vars

\* C3: the results_count written when a run is marked completed is the number
\* of competitor rows attached to the run at that moment
C3_CountEqualsRows ==
    [][\A r \in Created :
        (search_runs'[r].status = "completed" /\ search_runs'[r] # search_runs[r])
        => search_runs'[r].results_count = RowsOfRun(competitors', r)]_vars

\* C4: no two competitor rows of one organization have the same normalized domain
C4_UniqueDomainPerOrg ==
    \A i, j \in DOMAIN competitors :
        (i # j /\ competitors[i].organization_id = competitors[j].organization_id)
            => extractDomain(competitors[i].website) # extractDomain(competitors[j].website)

\* the candidates of a save whose domain no row of the organization has yet
Accepted(r) ==
    DropExisting(worker[r].unique, OrgDomains(competitors, jobs[r].organizationId))

\* C5: when a run saves candidates of which one was inserted by another run in
\* the meantime, that candidate is skipped as a conflict, the others are
\* inserted, and the count of the run is the number of its accepted inserts
C5_ConflictSkippedSilently ==
    [][\A r \in Created :
        (worker[r].pc = "save" /\ worker'[r].pc = "complete"
         /\ Accepted(r) # worker[r].unique)
        => /\ competitors' = competitors \o Records(Accepted(r), r, jobs[r].organizationId)
           /\ worker'[r].savedCount = Len(Accepted(r))]_vars

\* C6: with zero search results after the fallback the run goes from searching
\* straight to completed with results_count 0 and gets no competitor row
C6_ZeroResultsComplete ==
    [][\A r \in Created :
        (worker[r].pc = "branch" /\ worker'[r].pc # "branch" /\ Len(worker[r].allResults) = 0)
        => /\ search_runs[r].status = "searching"
           /\ search_runs'[r].status = "completed"
           /\ search_runs'[r].results_count = 0
           /\ worker'[r].pc = "returned_empty"
           /\ competitors' = competitors
           /\ RowsOfRun(competitors', r) = 0]_vars

C6_Witness ==
    \E r \in Created :
        /\ worker[r].pc = "returned_empty"
        /\ search_runs[r].status = "completed"
        /\ search_runs[r].results_count = 0
        /\ RowsOfRun(competitors, r) = 0

C8_OnlyPersistenceFails ==
    \A r \in Created :
        /\ search_runs[r].status = "failed"
            => worker[r].error \in {SaveError(m) : m \in DbErrors}
        /\ worker[r].pc = "catch" => worker[r].error \in {SaveError(m) : m \in DbErrors}
        /\ Finished(r) => search_runs[r].status = "completed"

C8_Witness ==
    \E r, q \in Created :
        /\ worker[r].pc = "returned" /\ search_runs[r].status = "completed"
        /\ {"firecrawl", "extractor"} \subseteq worker[r].faults
        /\ worker[q].pc = "returned_empty" /\ search_runs[q].status = "completed"
        /\ {"firecrawl", "ai"} \subseteq worker[q].faults

CallsOf(r, provider) == {i \in DOMAIN worker[r].calls : worker[r].calls[i].provider = provider}
CreditCalls(r) == {i \in DOMAIN worker[r].calls : worker[r].calls[i].result = "credits"}

RECURSIVE PrimaryCount(_)
\* results the primary provider returned over the calls of a log
PrimaryCount(calls) ==
    IF calls = <<>> THEN 0
    ELSE (IF Head(calls).provider = "firecrawl" THEN Head(calls).count ELSE 0)
         + PrimaryCount(Tail(calls))

\* C9: after a primary call answered insufficient_credits no further primary
\* call is made and the AI fallback is called exactly once
C9_ExhaustionThenFallbackOnce ==
    \A r \in Created :
        (worker[r].pc = "branch" /\ CreditCalls(r) # {})
        => /\ \A i \in CreditCalls(r), j \in CallsOf(r, "firecrawl") : j <= i
           /\ Cardinality(CallsOf(r, "ai")) = 1

\* C10: the fallback is called at most once, after the primary calls, and only
\* when the primary returned nothing in aggregate or ran out of credits; never
\* after a primary iteration that ended normally with a result
C10_FallbackOnlyWhenNeeded ==
    \A r \in Created :
        worker[r].pc = "branch"
        => /\ Cardinality(CallsOf(r, "ai")) <= 1
           /\ \A j \in CallsOf(r, "ai"), i \in CallsOf(r, "firecrawl") : i < j
           /\ CallsOf(r, "ai") # {}
                => (PrimaryCount(worker[r].calls) = 0 \/ CreditCalls(r) # {})
           /\ (PrimaryCount(worker[r].calls) > 0 /\ CreditCalls(r) = {})
                => CallsOf(r, "ai") = {}

C10_Witness ==
    \E r, q \in Created :
        /\ worker[r].pc = "branch" /\ CallsOf(r, "ai") # {} /\ CallsOf(r, "firecrawl") # {}
        /\ worker[q].pc = "branch" /\ CallsOf(q, "ai") = {} /\ PrimaryCount(worker[q].calls) > 0

\* C11: a competitor row attached to run R implies that the status of R is
\* searching, extracting or completed (running, the in-progress status of
\* handleSearch, counted with them): no pending or failed run has rows
C11_RowsImplyActiveStatus ==
    \A i \in DOMAIN competitors :
        competitors[i].search_run_id \in Created
        => search_runs[competitors[i].search_run_id].status
               \in {"searching", "extracting", "running", "completed"}

\* C12: createRun inserts a run row and adds a job only if the project exists
\* and belongs to the caller's organization; otherwise it answers not-found and
\* creates neither; a job is added only for a run row that exists with status
\* pending
C12_CreateRunChecksProject ==
    [][request' # None /\ request'[1].op = "createRun"
       => LET q == request'[1]
              belongs == q.projectId \in ProjectIds /\ ProjectOrg[q.projectId] = q.organizationId
          IN /\ (search_runs' # search_runs \/ jobs' # jobs) => belongs
             /\ ~belongs => /\ q.outcome = "not_found"
                            /\ search_runs' = search_runs
                            /\ jobs' = jobs
             /\ \A r \in RunIds :
                    (jobs[r].state = "none" /\ jobs'[r].state # "none")
                    => /\ r \in DOMAIN search_runs'
                       /\ search_runs'[r].status = "pending"
                       /\ search_runs'[r].project_id = q.projectId]_vars

C12_Witness ==
    /\ request # None
    /\ request[1].op = "createRun"
    /\ request[1].outcome = "not_found"
    /\ request[1].projectId \in ProjectIds
    /\ Len(search_runs) = 1
    /\ jobs[1].state = "waiting"

\* C13: a request whose keywords list or regions list is empty ends in a
\* validation error and creates neither a run row nor a job
C13_EmptyListsRejected ==
    [][request' # None /\ request'[1].op \in {"validate", "createRun"}
          /\ (request'[1].keywords = <<>> \/ request'[1].regions = <<>>)
       => /\ request'[1].outcome = "bad_request"
          /\ search_runs' = search_runs
          /\ jobs' = jobs]_vars

BasicAsScored(row) ==
    [name |-> row.name, website |-> row.website, description |-> "d",
     business_model |-> "", value_proposition |-> "",
     industry |-> "Fintech Payments", country |-> "NG",
     founded_year |-> 0, funding_raised |-> 0]

\* the scoring context most favourable to such a row
BestContext == [targetIndustries |-> <<"fintech">>, targetCountry |-> "NG"]

\* C15: no competitor row is persisted by a run for a candidate whose
\* relevance score is below 75
C15_NoRowBelowThreshold ==
    \A i \in DOMAIN competitors :
        competitors[i].search_run_id \in Created
        => calculateRelevanceScore(BasicAsScored(competitors[i]), BestContext)
               >= MINIMUM_SCORE_THRESHOLD

\* C16: for every candidate and every scoring context calculateRelevanceScore
\* returns an integer between 0 and 100 inclusive
C16_ScoreInRange ==
    (request # None /\ request[1].op = "calculateRelevanceScore")
    => request[1].score \in 0..100

C16_Witness ==
    /\ request # None
    /\ request[1].op = "calculateRelevanceScore"
    /\ request[1].competitor.founded_year > CurrentYear
    /\ request[1].score = 100

\* C17: for every input, an empty keyword list or an empty region list
\* included, the query builder returns between 1 and 5 queries, each of them
\* a non-empty string
C17_OneToFiveQueries ==
    (request # None /\ request[1].op = "buildSearchQueries")
    => /\ Len(request[1].queries) \in 1..QueryCap
       /\ \A i \in DOMAIN request[1].queries : request[1].queries[i].q # <<>>

\* C18: the list returned by the search step never holds two results with
\* the same url, whichever provider produced them
C18_NoTwoResultsSameUrl ==
    (request # None /\ request[1].op = "searchCompetitors")
    => \A i, j \in DOMAIN request[1].res.allResults :
          i # j => request[1].res.allResults[i].url # request[1].res.allResults[j].url

\* C19: every run whose status is completed or failed has a completed_at: the
\* update that sets either status sets completed_at as well
C19_FinishedRunsHaveCompletedAt ==
    \A r \in Created :
        search_runs[r].status \in {"completed", "failed"} => search_runs[r].completed_at # None

\* C20: a run is never left forever in searching or extracting, an external
\* call that does not return included: the job is cancelled and the run ends
\* failed with error_message "timeout"
C20_NoRunStuckInProgress ==
    \A r \in RunIds :
        (r \in Created /\ search_runs[r].status \in {"searching", "extracting"})
        ~> (r \in Created /\ search_runs[r].status \in {"completed", "failed"})

\* the enrichment call whose result the request holds
Enriched == request # None /\ request[1].op = "enrichCompetitor"

\* C21: data_sources names a step only if that step contributed data: website
\* only if the structured scrape returned data, a social platform only if the
\* scrape of that profile succeeded, ai_analysis only if the model analysis
\* succeeded
C21_SourcesNameContributingSteps ==
    Enriched =>
        LET in == request[1].in
            sources == Range(request[1].result.data_sources)
        IN /\ "website" \in sources => in.extracted # None
           /\ \A p \in Platforms : p \in sources => p \in in.pages
           /\ "ai_analysis" \in sources => in.ai = "json"

\* C22: with AI analysis enabled and the model call failed or unparsable, the
\* result carries the fallback analysis: weaknesses, opportunities and threats
\* filled and market_positioning set
C22_FallbackAnalysisOnFailure ==
    (Enriched /\ request[1].in.ai \in {"throw", "unparsable"})
    => /\ request[1].result.competitive_analysis # None
       /\ request[1].result.market_positioning # ""

\* C26: every merged field follows enrichment output > initial input > value
\* derived from the URL: a field the scrape left empty and the initial input
\* supplies carries the initial value, and a name neither supplies is derived
\* from the URL
C26_MergePrecedence ==
    Enriched =>
        LET in == request[1].in
            merged == request[1].result.merged
            scraped(f) == IF in.extracted = None THEN "" ELSE in.extracted[1][f]
        IN /\ \A f \in {"description", "business_model", "value_proposition"} :
                (scraped(f) = "" /\ in.initial[f] # "") => merged[f] = in.initial[f]
           /\ (scraped("company_name") = "" /\ in.initial.name # "") => merged.name = in.initial.name
           /\ (scraped("company_name") = "" /\ in.initial.name = "")
                 => merged.name = extractDomainName(in.host)

\* C23: with no Firecrawl API key, search, scrapePage, scrapeWithExtraction and
\* crawlSite neither fail nor answer empty: search gives results with url,
\* title and markdown, scrapePage a page with url, title and markdown,
\* scrapeWithExtraction a record with company_name, description and
\* social_links, crawlSite at least one page
C23_MockAnswersWithoutKey ==
    (request # None /\ request[1].op = "FirecrawlService" /\ ~request[1].configured)
    => LET res == request[1].result
       IN /\ ~res.threw
          /\ request[1].method = "scrapeWithExtraction" => res.record # None
          /\ request[1].method # "scrapeWithExtraction" =>
                /\ Len(res.items) > 0
                /\ \A i \in DOMAIN res.items :
                      res.items[i].url # "" /\ res.items[i].title # "" /\ res.items[i].markdown # ""

\* the normalized domain of a website as specified: the lower-cased host name
\* with a leading www. removed; None when the website has no host
NormalizedDomain(u) ==
    IF u.host = <<>> THEN None
    ELSE LET h == [i \in DOMAIN u.host |-> Lower(u.host[i])]
         IN IF Len(h) > 1 /\ h[1] = "www" THEN Tail(h) ELSE h

\* C24: deduplicateCompetitors returns, in input order, exactly the first
\* candidate of each normalized domain that is not the normalized domain of a
\* stored competitor of the organization
C24_FirstOfEachNewDomain ==
    (request # None /\ request[1].op = "deduplicateCompetitors")
    => LET cands == request[1].cands
           result == request[1].result
           known == {NormalizedDomain(request[1].stored[i]) : i \in DOMAIN request[1].stored}
           dom(i) == NormalizedDomain(cands[i].website)
           kept == {i \in DOMAIN cands :
                       /\ dom(i) # None
                       /\ dom(i) \notin known
                       /\ \A j \in 1..(i - 1) : dom(j) # dom(i)}
           nth(k) == CHOOSE i \in kept : Cardinality({j \in kept : j < i}) = k - 1
       IN /\ Len(result) = Cardinality(kept)
          /\ \A k \in 1..Cardinality(kept) : result[k] = cands[nth(k)]

\* the steps in which the handler of run r reaches the duplicate check for the
\* extracted candidate ex and the check fails (embedding call or rpc)
DupCheckFails(r, ex, save) ==
    /\ legacy[r].pc = "results"
    /\ ResultStep(Head(legacy[r].pending), ex,
                  [targetIndustries |-> jobs[r].industries,
                   targetCountry |-> Head(legacy[r].pairs).region], FALSE) = "save"
    /\ LegacyResult(r, ex, "error", save)

\* C25: when the embedding call or the similarity query of the duplicate check
\* fails for a candidate, the run goes on and the candidate is admitted: it is
\* counted and a competitor row of the run is saved for it
C25_FailedDupCheckAdmits ==
    [][\A r \in RunIds, ex \in {Some(c) : c \in LegacyCands}, save \in SaveOutcomes :
        DupCheckFails(r, ex, save)
        => /\ legacy'[r].pc # "catch"
           /\ legacy'[r].allCompetitors = legacy[r].allCompetitors + 1
           /\ Len(competitors') = Len(competitors) + 1
           /\ competitors'[Len(competitors')].search_run_id = r]_vars

\* the ladder as specified: vertical and trigger phrase, first match wins
VerticalLadder ==
    <<<<"neobank", "neobank">>, <<"mobile money", "mobile money">>, <<"fintech", "fintech">>,
      <<"construction materials", "construction">>, <<"logistics", "delivery">>,
      <<"agritech", "farm">>, <<"healthtech", "health">>, <<"e-commerce", "marketplace">>,
      <<"edtech", "education">>>>

\* C27: a description with trigger phrases of several verticals is classified
\* as the first of them in the order neobank, mobile money, fintech,
\* construction materials, logistics, agritech, healthtech, e-commerce, edtech
C27_FirstVerticalWins ==
    (request # None /\ request[1].op = "extractBusinessModel")
    => LET hits == {i \in DOMAIN VerticalLadder : VerticalLadder[i][2] \in request[1].desc}
       IN hits # {} =>
             request[1].result.vertical =
                VerticalLadder[CHOOSE i \in hits : \A j \in hits : i <= j][1]

\* C28: every run created by createRun eventually reaches completed or failed
\* when the worker keeps taking steps and every external call returns, also
\* when enqueueing the job fails after the run row was inserted
C28_EveryRunEnds ==
    \A r \in RunIds :
        (r \in Created) ~> (r \in Created /\ search_runs[r].status \in {"completed", "failed"})

\* the scorer call whose result the request holds
Scored == request # None /\ request[1].op = "calculateRelevanceScore"

\* the candidate's industry contains one of the target industries
IndustryMatched(c, ctx) ==
    /\ c.industry # ""
    /\ \E i \in DOMAIN ctx.targetIndustries :
          Includes(LowerStr(c.industry), LowerStr(ctx.targetIndustries[i]))

\* the candidate's country is the target country, case aside
CountryMatched(c, ctx) ==
    c.country # "" /\ ctx.targetCountry # "" /\ UpperStr(c.country) = UpperStr(ctx.targetCountry)

C29_NoIndustriesNoRows ==
    \A i \in DOMAIN competitors :
        competitors[i].search_run_id \in RunIds
        => jobs[competitors[i].search_run_id].industries # <<>>

\* every discovery_queue item of the run is completed or failed
AllItemsEnded == \A j \in WorkerJobs : jobs[j].status \in {"completed", "failed"}

\* C30, first half: the run is set to completed only in a state where every
\* queue item of the run is completed or failed
C30_CompletedOnlyWhenAllEnded ==
    [][(search_runs'[1].status = "completed" /\ search_runs[1].status # "completed")
       => AllItemsEnded]_vars

\* C30: for every interleaving of the handlers of one run, the run is set to
\* completed only when every queue item of the run is completed or failed,
\* and once every item is completed or failed the run is eventually set to
\* completed, also when the job that finishes last is one that failed
C30_RunCompletesAfterLastJob ==
    /\ C30_CompletedOnlyWhenAllEnded
    /\ AllItemsEnded ~> (search_runs[1].status = "completed")

====
